---- MODULE Spec2Model ----
(***************************************************************************)
(* Model of src/pdf_reader.py: class PDFReader (the Document Accessor).    *)
(* The accessor stores a path; every extraction call opens the backing     *)
(* file itself, runs its body and leaves its `with` block.                 *)
(* Python values: Optional[int] is a sequence of length <= 1 (<<>> is      *)
(* None); list indexing follows Python (negative indexes wrap, anything    *)
(* else out of range raises IndexError).                                   *)
(***************************************************************************)
EXTENDS Integers, Sequences, FiniteSets, TLC

\* ---------------------------------------------------------------- bounds
MaxPages == 3
ArgSlack == 1

\* ------------------------------------------------------- the environment
\* the fields of the records below and what each one carries; every record
\* lists its fields in this order
FieldNames ==
  [end_page     |-> "argument of extract_text_by_page_range",
   height       |-> "page.height",
   kind         |-> "ok, or the exception raised",
   offsets      |-> "0-based indexes used on the page list",
   op           |-> "method called",
   page_num     |-> "argument of extract_tables_by_page",
   page_number  |-> "key of a page_info dictionary",
   path         |-> "argument of __init__",
   plumber_text |-> "page.extract_text() of pdfplumber",
   pypdf2_text  |-> "page.extract_text() of PyPDF2",
   start_page   |-> "argument of extract_text_by_page_range",
   tables       |-> "page.extract_tables()",
   text         |-> "key of a page_info dictionary",
   total_pages  |-> "len of the page list",
   value        |-> "value returned",
   width        |-> "page.width"]

Paths == {"a.pdf", "b.pdf"}

\* what the filesystem holds at a path
FileKinds == {"missing", "pdf", "corrupt"}

\* text value of page.extract_text() when the backend finds no text
NoneText == "<None>"

\* The pages a document can be made of.  The two backends are different
\* libraries, each with its own extract_text(): a page carries one text per
\* backend, its geometry, and its tables (a table is a sequence of rows of
\* cell strings).
PageKinds ==
  { [height |-> 792, plumber_text |-> "alpha", pypdf2_text |-> "alpha",
     tables |-> << >>, width |-> 612],
    [height |-> 842, plumber_text |-> "beta", pypdf2_text |-> "be ta",
     tables |-> << << <<"h1", "h2">>, <<"c1", "c2">> >> >>, width |-> 595],
    [height |-> 792, plumber_text |-> NoneText, pypdf2_text |-> "",
     tables |-> << >>, width |-> 612] }

Documents == UNION { [1..n -> PageKinds] : n \in 0..MaxPages }

\* page-number arguments a caller may pass
PageArgs == (0 - ArgSlack) .. (MaxPages + ArgSlack)

\* -------------------------------------------------------- Python helpers
\* range(lo, hi) as the sequence of its values
PyRange(lo, hi) == [k \in 1..(IF hi > lo THEN hi - lo ELSE 0) |-> lo + k - 1]

\* does lst[i] raise IndexError
PyIndexError(lst, i) == i >= Len(lst) \/ i < 0 - Len(lst)

\* lst[i] for a Python list (0-based, negative indexes count from the end)
PyIndex(lst, i) == IF i >= 0 THEN lst[i + 1] ELSE lst[Len(lst) + i + 1]

\* os.path.exists(pdf_path)
os_path_exists(files, pdf_path) == files[pdf_path] # "missing"

\* variant: the existence check is left out
init_outcome_nocheck(files, pdf_path) == [kind |-> "ok", path |-> pdf_path]

\* ---------------------------------------------------------- PDFReader
\* __init__: the outcome of the existence check
init_outcome(files, pdf_path) ==
  IF ~ os_path_exists(files, pdf_path)
    THEN [kind |-> "FileNotFoundError", path |-> pdf_path]
    ELSE [kind |-> "ok", path |-> pdf_path]

\* __init__: does the constructor open or parse the file (it does not)
init_opens(files, pdf_path) == FALSE

\* variant: the loop stops one page early
read_pages_with_pypdf2_short(doc) ==
  LET idx == PyRange(0, Len(doc) - 1)
  IN  [kind |-> "ok",
       offsets |-> idx,
       value |-> [k \in 1..Len(idx) |-> PyIndex(doc, idx[k]).pypdf2_text]]

\* variant: a page without text is left out of the list
read_pages_with_pypdf2_skipempty(doc) ==
  LET idx == PyRange(0, Len(doc))
      texts == [k \in 1..Len(idx) |-> PyIndex(doc, idx[k]).pypdf2_text]
      HasText(t) == t # ""
  IN  [kind |-> "ok", offsets |-> idx, value |-> SelectSeq(texts, HasText)]

\* read_pages_with_pypdf2: body of the with block on a parsed document
read_pages_with_pypdf2(doc) ==
  LET total_pages == Len(doc)
      idx == PyRange(0, total_pages)
  IN  [kind |-> "ok",
       offsets |-> idx,
       value |-> [k \in 1..Len(idx) |-> PyIndex(doc, idx[k]).pypdf2_text]]

\* variant: page_number is the 0-based enumerate index
read_pages_with_pdfplumber_zero(doc) ==
  [kind |-> "ok",
   offsets |-> PyRange(0, Len(doc)),
   value |-> [k \in 1..Len(doc) |->
                [height |-> doc[k].height,
                 page_number |-> k - 1,
                 text |-> doc[k].plumber_text,
                 width |-> doc[k].width]]]

\* read_pages_with_pdfplumber: body of the with block
read_pages_with_pdfplumber(doc) ==
  [kind |-> "ok",
   offsets |-> PyRange(0, Len(doc)),
   value |-> [k \in 1..Len(doc) |->
                [height |-> doc[k].height,
                 page_number |-> (k - 1) + 1,
                 text |-> doc[k].plumber_text,
                 width |-> doc[k].width]]]

\* variant: start_page is not raised to 1
clamp_start_noclamp(start_page) == start_page

\* extract_text_by_page_range: start_page after `if start_page < 1`
clamp_start(start_page) == IF start_page < 1 THEN 1 ELSE start_page

\* variant: only None is replaced, a large end_page is kept
clamp_end_noneonly(end_page, total_pages) ==
  IF end_page = << >> THEN total_pages ELSE end_page[1]

\* extract_text_by_page_range: end_page after `if end_page is None or ...`
clamp_end(end_page, total_pages) ==
  IF end_page = << >> \/ end_page[1] > total_pages
    THEN total_pages ELSE end_page[1]

\* variant: start_idx is not translated to a 0-based offset
extract_text_by_page_range_offbyone(doc, start_page, end_page) ==
  LET total_pages == Len(doc)
      s == clamp_start(start_page)
      e == clamp_end(end_page, total_pages)
      idx == PyRange(s, e)
  IN  IF \E k \in 1..Len(idx) : PyIndexError(doc, idx[k])
        THEN [kind |-> "IndexError", offsets |-> idx]
        ELSE [kind |-> "ok",
              offsets |-> idx,
              value |-> [k \in 1..Len(idx) |-> PyIndex(doc, idx[k]).plumber_text]]

\* extract_text_by_page_range: body of the with block
extract_text_by_page_range(doc, start_page, end_page) ==
  LET total_pages == Len(doc)
      s == clamp_start(start_page)
      e == clamp_end(end_page, total_pages)
      start_idx == s - 1
      end_idx == e
      idx == PyRange(start_idx, end_idx)
  IN  IF \E k \in 1..Len(idx) : PyIndexError(doc, idx[k])
        THEN [kind |-> "IndexError", offsets |-> idx]
        ELSE [kind |-> "ok",
              offsets |-> idx,
              value |-> [k \in 1..Len(idx) |-> PyIndex(doc, idx[k]).plumber_text]]

\* variant: the lower bound of the check is `page_num < 0`
extract_tables_by_page_lowzero(doc, page_num) ==
  LET total_pages == Len(doc)
  IN  IF page_num < 0 \/ page_num > total_pages
        THEN [kind |-> "ValueError", offsets |-> << >>,
              page_num |-> page_num, total_pages |-> total_pages]
        ELSE LET page_idx == page_num - 1
             IN  IF PyIndexError(doc, page_idx)
                   THEN [kind |-> "IndexError", offsets |-> <<page_idx>>]
                   ELSE [kind |-> "ok",
                         offsets |-> <<page_idx>>,
                         value |-> PyIndex(doc, page_idx).tables]

\* variant: the upper bound of the check is `page_num >= total_pages`
extract_tables_by_page_highstrict(doc, page_num) ==
  LET total_pages == Len(doc)
  IN  IF page_num < 1 \/ page_num >= total_pages
        THEN [kind |-> "ValueError", offsets |-> << >>,
              page_num |-> page_num, total_pages |-> total_pages]
        ELSE [kind |-> "ok",
              offsets |-> <<page_num - 1>>,
              value |-> PyIndex(doc, page_num - 1).tables]

\* extract_tables_by_page: body of the with block
extract_tables_by_page(doc, page_num) ==
  LET total_pages == Len(doc)
  IN  IF page_num < 1 \/ page_num > total_pages
        THEN [kind |-> "ValueError", offsets |-> << >>,
              page_num |-> page_num, total_pages |-> total_pages]
        ELSE LET page_idx == page_num - 1
             IN  IF PyIndexError(doc, page_idx)
                   THEN [kind |-> "IndexError", offsets |-> <<page_idx>>]
                   ELSE [kind |-> "ok",
                         offsets |-> <<page_idx>>,
                         value |-> PyIndex(doc, page_idx).tables]

\* variant: the handle is closed on the normal path only
with_exit_leaky(open_handles, body_outcome) ==
  IF body_outcome.kind = "ok" THEN open_handles - 1 ELSE open_handles

\* leaving a `with` block: the handle is closed whatever the body's outcome
with_exit(open_handles, body_outcome) == open_handles - 1

\* ------------------------------------------------------------------ state
VARIABLES
  fs,            \* path -> what the filesystem holds there
  pages,         \* the page store of the PDF files
  pdf_path,      \* self.pdf_path of the accessor: << >> before construction
  pc,            \* "idle", "body" (inside the with block), "exit"
  call,          \* the call in progress, or the last one made
  result,        \* outcome of the last finished call
  outcome,       \* outcome of the body, held until the with block is left
  handles,       \* number of open handles on the backing file
  opened,        \* has the last call opened the backing file
  lastSimple,    \* last result of read_pages_with_pypdf2 on this accessor
  lastDetailed   \* last result of read_pages_with_pdfplumber on it

vars == <<fs, pages, pdf_path, pc, call, result, outcome, handles, opened,
          lastSimple, lastDetailed>>

NoResult == [kind |-> "none"]

Init ==
  /\ fs \in [Paths -> FileKinds]
  /\ pages \in Documents
  /\ pdf_path = << >>
  /\ pc = "idle"
  /\ call = [op |-> "none"]
  /\ result = NoResult
  /\ outcome = NoResult
  /\ handles = 0
  /\ opened = FALSE
  /\ lastSimple = << >>
  /\ lastDetailed = << >>

\* PDFReader(path)
Construct(path) ==
  /\ pc = "idle"
  /\ call' = [op |-> "Construct", path |-> path]
  /\ result' = init_outcome(fs, path)
  /\ opened' = init_opens(fs, path)
  /\ IF init_outcome(fs, path).kind = "ok"
       THEN /\ pdf_path' = <<path>>
            /\ lastSimple' = << >>
            /\ lastDetailed' = << >>
       ELSE UNCHANGED <<pdf_path, lastSimple, lastDetailed>>
  /\ UNCHANGED <<fs, pages, pc, outcome, handles>>

\* `with open(self.pdf_path, 'rb') as file:` -- the handle is taken first,
\* PyPDF2 parses inside the block
Enter_open(c) ==
  /\ pc = "idle"
  /\ pdf_path # << >>
  /\ call' = c
  /\ result' = NoResult
  /\ handles' = handles + 1
  /\ opened' = TRUE
  /\ pc' = "body"
  /\ UNCHANGED <<fs, pages, pdf_path, outcome, lastSimple, lastDetailed>>

\* `with pdfplumber.open(self.pdf_path) as pdf:` -- an unparsable file makes
\* open() raise, and the block is never entered
Enter_pdfplumber(c) ==
  /\ pc = "idle"
  /\ pdf_path # << >>
  /\ call' = c
  /\ opened' = TRUE
  /\ IF fs[pdf_path[1]] = "corrupt"
       THEN /\ result' = [kind |-> "BackendError"]
            /\ UNCHANGED <<handles, pc>>
       ELSE /\ result' = NoResult
            /\ handles' = handles + 1
            /\ pc' = "body"
  /\ UNCHANGED <<fs, pages, pdf_path, outcome, lastSimple, lastDetailed>>

Call_read_pages_with_pypdf2 ==
  Enter_open([op |-> "read_pages_with_pypdf2"])

Call_read_pages_with_pdfplumber ==
  Enter_pdfplumber([op |-> "read_pages_with_pdfplumber"])

Call_extract_text_by_page_range(start_page, end_page) ==
  Enter_pdfplumber([end_page |-> end_page,
                    op |-> "extract_text_by_page_range",
                    start_page |-> start_page])

Call_extract_tables_by_page(page_num) ==
  Enter_pdfplumber([op |-> "extract_tables_by_page", page_num |-> page_num])

\* the body of the with block, up to its return or raise
Body ==
  /\ pc = "body"
  /\ outcome' =
       CASE call.op = "read_pages_with_pypdf2" ->
              IF fs[pdf_path[1]] = "corrupt"
                THEN [kind |-> "BackendError"]
                ELSE read_pages_with_pypdf2(pages)
         [] call.op = "read_pages_with_pdfplumber" ->
              read_pages_with_pdfplumber(pages)
         [] call.op = "extract_text_by_page_range" ->
              extract_text_by_page_range(pages, call.start_page, call.end_page)
         [] call.op = "extract_tables_by_page" ->
              extract_tables_by_page(pages, call.page_num)
  /\ pc' = "exit"
  /\ UNCHANGED <<fs, pages, pdf_path, call, result, handles, opened,
                 lastSimple, lastDetailed>>

\* __exit__ of the with block, then the return or the propagating exception
Exit ==
  /\ pc = "exit"
  /\ handles' = with_exit(handles, outcome)
  /\ result' = outcome
  /\ outcome' = NoResult
  /\ pc' = "idle"
  /\ lastSimple' = IF call.op = "read_pages_with_pypdf2" /\ outcome.kind = "ok"
                     THEN <<outcome.value>> ELSE lastSimple
  /\ lastDetailed' = IF call.op = "read_pages_with_pdfplumber" /\ outcome.kind = "ok"
                       THEN <<outcome.value>> ELSE lastDetailed
  /\ UNCHANGED <<fs, pages, pdf_path, call, opened>>

Next ==
  \/ \E path \in Paths : Construct(path)
  \/ Call_read_pages_with_pypdf2
  \/ Call_read_pages_with_pdfplumber
  \/ \E s \in PageArgs : Call_extract_text_by_page_range(s, << >>)
  \/ \E s \in PageArgs, e \in PageArgs : Call_extract_text_by_page_range(s, <<e>>)
  \/ \E p \in PageArgs : Call_extract_tables_by_page(p)
  \/ Body
  \/ Exit

Spec == Init /\ [][Next]_vars

\* ------------------------------------------------------------ properties
\* the document behind the accessor can be opened and parsed
Readable == pdf_path # << >> /\ fs[pdf_path[1]] = "pdf"

\* the call named op has returned or raised
Finished(op) == pc = "idle" /\ call.op = op

totalPages == Len(pages)

Max(a, b) == IF a >= b THEN a ELSE b

\* the claims' own reading of the clamped range
clampedStart == IF call.start_page < 1 THEN 1 ELSE call.start_page
clampedEnd == IF call.end_page = << >> THEN totalPages
              ELSE IF call.end_page[1] > totalPages THEN totalPages
              ELSE call.end_page[1]

\* C1: Construct(path) succeeds iff something exists at path; otherwise it
\* fails with FileNotFoundError; no Construct opens or parses the file.
C1_ConstructIffExists ==
  Finished("Construct") =>
    /\ (result.kind = "ok") <=> (fs[call.path] # "missing")
    /\ (fs[call.path] = "missing") => (result.kind = "FileNotFoundError")
    /\ (result.kind = "ok") => (pdf_path = <<call.path>>)
    /\ ~ opened
    /\ handles = 0

C1_Witness ==
  /\ Finished("Construct")
  /\ result.kind = "FileNotFoundError"
  /\ \E p \in Paths : fs[p] # "missing"

\* C2: ExtractTables(pageNumber) raises InvalidArgument, reporting the total
\* page count, exactly when pageNumber < 1 or pageNumber > totalPages;
\* otherwise it returns the tables of page index pageNumber - 1.
C2_TablesValidation ==
  (Finished("extract_tables_by_page") /\ Readable) =>
    IF call.page_num < 1 \/ call.page_num > totalPages
      THEN /\ result.kind = "ValueError"
           /\ result.total_pages = totalPages
           /\ result.page_num = call.page_num
      ELSE /\ result.kind = "ok"
           /\ result.value = pages[(call.page_num - 1) + 1].tables

C2_Witness ==
  /\ Finished("extract_tables_by_page")
  /\ Readable
  /\ totalPages >= 2
  /\ \/ call.page_num = totalPages /\ result.kind = "ok" /\ result.value = << >>
     \/ call.page_num = totalPages + 1 /\ result.kind = "ValueError"

\* C3 as stated: the returned sequence has end - start + 1 entries, computed
\* on the clamped values.
C3_LengthAsStated ==
  (Finished("extract_text_by_page_range") /\ Readable /\ result.kind = "ok") =>
    Len(result.value) = clampedEnd - clampedStart + 1

\* C3 amended: ReadPageRange(start, end) behaves as the call on the clamped
\* values does, and returns max(0, end - start + 1) entries, computed on the
\* clamped values.
C3_ClampedLength ==
  (Finished("extract_text_by_page_range") /\ Readable) =>
    /\ result = extract_text_by_page_range(pages, clampedStart, <<clampedEnd>>)
    /\ result.kind = "ok"
    /\ Len(result.value) = Max(0, clampedEnd - clampedStart + 1)

C3_Witness ==
  /\ Finished("extract_text_by_page_range")
  /\ Readable
  /\ call.start_page < 1
  /\ call.end_page # << >> /\ call.end_page[1] > totalPages
  /\ result.kind = "ok"
  /\ Len(result.value) = totalPages
  /\ totalPages >= 2

\* C4: the k-th returned entry (k from 0) is the text of the page at offset
\* start - 1 + k, the offsets used are exactly start - 1 .. end - 1 in
\* order, and each lies in [0, totalPages - 1].
C4_RangeContent ==
  Finished("extract_text_by_page_range") /\ Readable =>
    /\ result.offsets = [k \in 1..Max(0, clampedEnd - clampedStart + 1) |->
                           (clampedStart - 1) + (k - 1)]
    /\ \A k \in 1..Len(result.offsets) :
         result.offsets[k] >= 0 /\ result.offsets[k] <= totalPages - 1
    /\ result.kind = "ok" =>
         /\ Len(result.value) = Len(result.offsets)
         /\ \A k \in 1..Len(result.value) :
              result.value[k] = pages[result.offsets[k] + 1].plumber_text

C4_Witness ==
  /\ Finished("extract_text_by_page_range")
  /\ Readable
  /\ call.start_page = 2
  /\ call.end_page = <<3>>
  /\ result.kind = "ok"
  /\ Len(result.value) = 2
  /\ result.value[1] # result.value[2]

\* C5: ReadPageRange on a readable document never raises, whatever the page
\* arguments.
C5_RangeNeverRaises ==
  (Finished("extract_text_by_page_range") /\ Readable) => result.kind = "ok"

C5_Witness ==
  /\ Finished("extract_text_by_page_range")
  /\ Readable
  /\ result.kind = "ok"
  /\ \/ call.start_page > totalPages
     \/ call.end_page # << >> /\ call.end_page[1] < call.start_page
  /\ call.start_page <= 0 \/ call.end_page # << >>

\* the ranged read covers the whole document
WholeRange ==
  /\ call.start_page <= 1
  /\ call.end_page = << >> \/ call.end_page[1] >= totalPages

\* C6 as stated: a ranged read of the whole document returns the sequence
\* ReadAllPagesSimple() returns.
C6_SameAsSimple ==
  (Finished("extract_text_by_page_range") /\ WholeRange /\ result.kind = "ok"
     /\ lastSimple # << >>) =>
    result.value = lastSimple[1]

\* C6 amended: a ranged read of the whole document returns all N pages'
\* text, as many entries as ReadAllPagesSimple() returns, identical in
\* content and order to the text of the records of ReadAllPagesDetailed().
C6_SameAsDetailedText ==
  (Finished("extract_text_by_page_range") /\ WholeRange /\ Readable) =>
    /\ result.kind = "ok"
    /\ Len(result.value) = totalPages
    /\ lastSimple # << >> => Len(result.value) = Len(lastSimple[1])
    /\ lastDetailed # << >> =>
         result.value = [k \in 1..Len(lastDetailed[1]) |-> lastDetailed[1][k].text]

C6_Witness ==
  /\ Finished("extract_text_by_page_range")
  /\ WholeRange
  /\ call.start_page = 0
  /\ call.end_page = <<totalPages + 1>>
  /\ totalPages >= 2
  /\ result.kind = "ok"
  /\ lastSimple # << >>
  /\ lastDetailed # << >>

\* C7: ReadAllPagesDetailed() returns N records in document order; the record
\* at 0-based position i has page number i + 1 and the text, width and
\* height of the page at offset i.
C7_DetailedRecords ==
  (Finished("read_pages_with_pdfplumber") /\ Readable) =>
    /\ result.kind = "ok"
    /\ Len(result.value) = totalPages
    /\ \A i \in 0..(totalPages - 1) :
         /\ result.value[i + 1].page_number = i + 1
         /\ result.value[i + 1].text = pages[i + 1].plumber_text
         /\ result.value[i + 1].width = pages[i + 1].width
         /\ result.value[i + 1].height = pages[i + 1].height

C7_Witness ==
  /\ Finished("read_pages_with_pdfplumber")
  /\ result.kind = "ok"
  /\ Len(result.value) >= 2
  /\ result.value[1].width # result.value[2].width

\* C8: a page number reported by ReadAllPagesDetailed(), passed to
\* ExtractTables on the same accessor, never raises InvalidArgument.
C8_RoundTrip ==
  (Finished("extract_tables_by_page") /\ lastDetailed # << >>
     /\ \E k \in 1..Len(lastDetailed[1]) :
          lastDetailed[1][k].page_number = call.page_num) =>
    result.kind # "ValueError"

C8_Witness ==
  /\ Finished("extract_tables_by_page")
  /\ lastDetailed # << >>
  /\ Len(lastDetailed[1]) >= 2
  /\ lastDetailed[1][Len(lastDetailed[1])].page_number = call.page_num
  /\ result.kind = "ok"

\* C9: once a call has exited, normally or by an exception, no handle it
\* acquired on the backing file is open; a call holds at most one.
C9_HandlesReleased ==
  /\ pc = "idle" => handles = 0
  /\ pc # "idle" => handles = 1

C9_Witness ==
  /\ pc = "idle"
  /\ opened
  /\ handles = 0
  /\ \/ call.op = "extract_tables_by_page" /\ result.kind = "ValueError"
     \/ call.op = "read_pages_with_pypdf2" /\ result.kind = "BackendError"

\* C10: ReadAllPagesSimple() returns N entries, the entry at 0-based position
\* i being the text of the page at offset i; a page without text contributes
\* its empty entry and is not left out.
C10_SimpleEntries ==
  (Finished("read_pages_with_pypdf2") /\ Readable) =>
    /\ result.kind = "ok"
    /\ Len(result.value) = totalPages
    /\ \A i \in 0..(totalPages - 1) :
         result.value[i + 1] = pages[i + 1].pypdf2_text

C10_Witness ==
  /\ Finished("read_pages_with_pypdf2")
  /\ result.kind = "ok"
  /\ Len(result.value) >= 2
  /\ \E i \in 1..Len(result.value) : result.value[i] = ""
  /\ \E i \in 1..Len(result.value) : result.value[i] # ""

TypeOK ==
  /\ pc \in {"idle", "body", "exit"}
  /\ handles \in 0..1
  /\ Len(pdf_path) <= 1
====
